---- MODULE Spec2Model ----
(***************************************************************************)
(* Model of src/ui_app.py, the Streamlit console of the QA test generator. *)
(*                                                                         *)
(* Streamlit runs the whole script top to bottom once per operator event   *)
(* (one widget changed, one button clicked).  Each action below is one     *)
(* such run: the sidebar (lines 176-256), the stage selector (line 273)    *)
(* and then the body of the stage that is selected (lines 278-851).        *)
(* st.session_state is the program state, DRAFT_DIR is the Draft Store.    *)
(*                                                                         *)
(* Python values: a dict is a function over its keys, a list a sequence,   *)
(* None the string None below (it only occurs where a string may occur).   *)
(***************************************************************************)
EXTENDS Integers, Sequences, FiniteSets, TLC

VARIABLES
    project_name,                  \* ss.project_name
    api_base,                      \* ss.api_base
    step,                          \* ss.step
    sources,                       \* ss.sources
    last_index_result,             \* ss.last_index_result
    jira_issue_key,                \* ss.jira_issue_key
    fetched_requirements,          \* ss.fetched_requirements
    requirements_last_fetched_at,  \* ss.requirements_last_fetched_at
    product_pack,                  \* ss.product_pack
    scenario_pack,                 \* ss.scenario_pack
    last_jira_result,              \* ss.last_jira_result
    kb_ready,                      \* ss.kb_ready
    files,                         \* DRAFT_DIR: file name -> JSON document
    notice,                        \* what the last run reported to the operator
    drafts,                        \* the options of the "Load a draft" selector (line 215)
    saved,                         \* history: file name -> the state dict given to save_draft
    view,                          \* what the last run rendered (metrics, search, test cases, CSV)
    n_events                       \* number of runs so far (bounded by MaxEvents)

vars == <<project_name, api_base, step, sources, last_index_result, jira_issue_key,
          fetched_requirements, requirements_last_fetched_at, product_pack,
          scenario_pack, last_jira_result, kb_ready, files, notice, drafts, saved,
          view, n_events>>

(***************************************************************************)
(* Bounds of the model: the sources a session adds and the events (runs)   *)
(* of a session.  DRAFT_DIR outlives a session, so a session starts with   *)
(* the drafts earlier sessions left there (OldDraft, EarlierState below).  *)
(* A widget without a key returns its value argument unless the operator   *)
(* changed it in this run; a control acts only on the stage that renders   *)
(* it.  MaxScenarios bounds the trees of the sessions that browse and      *)
(* export the scenarios (SpecViews).                                       *)
(***************************************************************************)
MaxSources == 2
MaxEvents == 4
MaxScenarios == 3

(***************************************************************************)
(* Python helpers.                                                         *)
(***************************************************************************)
None == "<None>"

EmptyDict == <<>>

Get(d, k, default) == IF k \in DOMAIN d THEN d[k] ELSE default

\* d[k] = v on a dict
Put(d, k, v) == [x \in DOMAIN d \cup {k} |-> IF x = k THEN v ELSE d[x]]

\* (s or default) for an optional string
StrOr(s, default) == IF s = None \/ s = "" THEN default ELSE s

\* str.strip() on the strings of the model: the blank ones and the padded one
\* are known by name
Blank == {"", " "}

strip(s) == IF s \in Blank THEN "" ELSE IF s = " RFID-9 " THEN "RFID-9" ELSE s

\* the stage names of the stepper
steps ==
    << "1) Connect Documentation",
       "2) Connect Jira & Import Requirements",
       "3) Project Settings (Business Rules + Jira Output)",
       "4) Create Test Scenarios",
       "5) Create Detailed Test Cases",
       "6) Export / Push to Jira" >>

Steps == {steps[i] : i \in DOMAIN steps}

DEFAULT_API_BASE == "http://localhost:8000"

default_project_settings ==
    [ product |-> [name |-> "RFID Scanner", vendor |-> "Zebra",
                   domain |-> "Warehouse RFID", version |-> None],
      requirements |-> <<>>,
      business_rules |-> [rules_text |-> "Unauthorized = EPC not in allowed inventory ..."],
      output |-> [hierarchy |-> "Scenario->TestCase",
                  jira |-> [project_key |-> "ABC",
                            scenario_issue_type |-> "Task",
                            testcase_issue_type |-> "Sub-task"]] ]

requirements_count(pp) == Len(Get(pp, "requirements", <<>>))

\* None where a dict is expected, and None where a list is expected
NoneDict == [none |-> TRUE]

NoneList == <<NoneDict>>

\* (l or default) for an optional list
ListOr(l, default) == IF l = NoneList \/ l = <<>> THEN default ELSE l

\* isinstance(v, dict) on the trees of the model, which are dicts or None
isinstance_dict(v) == v # NoneDict

\* lines 126-129
scenario_list(sp) ==
    IF ~isinstance_dict(sp) THEN <<>>
    ELSE ListOr(Get(sp, "scenarios", NoneList), <<>>)

\* faulty variant: the length is taken of whatever test_cases holds
RECURSIVE SumLensOfRawField(_)
SumLensOfRawField(scs) ==
    IF scs = <<>> THEN 0
    ELSE Len(Get(Head(scs), "test_cases", <<>>)) + SumLensOfRawField(Tail(scs))

\* the loop of total_testcases (lines 134-135) over the scenarios left
RECURSIVE SumLens(_)
SumLens(scs) ==
    IF scs = <<>> THEN 0
    ELSE Len(ListOr(Get(Head(scs), "test_cases", NoneList), <<>>)) + SumLens(Tail(scs))

\* lines 132-136
total_testcases(sp) == SumLens(scenario_list(sp))

(***************************************************************************)
(* json.dump / json.load (lines 63-77).  A file holds a JSON document: a   *)
(* tree of tagged nodes.  Python None becomes null, a bool true or false,  *)
(* a str a string, a list an array and a dict an object, and back.         *)
(***************************************************************************)
JNull == [t |-> "null"]

JStr(s) == [t |-> "string", v |-> s]

JBool(b) == [t |-> IF b THEN "true" ELSE "false"]

JArr(l) == [t |-> "array", v |-> l]

JObj(d) == [t |-> "object", v |-> d]

dump_str(s) == IF s = None THEN JNull ELSE JStr(s)

load_str(j) == IF j.t = "null" THEN None ELSE j.v

dump_strlist(l) == JArr([i \in DOMAIN l |-> dump_str(l[i])])

load_strlist(j) == [i \in DOMAIN j.v |-> load_str(j.v[i])]

\* a dict whose values are strings or None
dump_strdict(d) == JObj([k \in DOMAIN d |-> dump_str(d[k])])

load_strdict(j) == [k \in DOMAIN j.v |-> load_str(j.v[k])]

dump_dictlist(l) ==
    IF l = NoneList THEN JNull ELSE JArr([i \in DOMAIN l |-> dump_strdict(l[i])])

load_dictlist(j) ==
    IF j.t = "null" THEN NoneList ELSE [i \in DOMAIN j.v |-> load_strdict(j.v[i])]

dump_source(s) ==
    JObj([k \in DOMAIN s |-> IF k = "tags" THEN dump_strlist(s[k]) ELSE dump_str(s[k])])

load_source(j) ==
    [k \in DOMAIN j.v |-> IF k = "tags" THEN load_strlist(j.v[k]) ELSE load_str(j.v[k])]

dump_scenario(s) ==
    JObj([k \in DOMAIN s |->
            IF k = "test_cases" THEN dump_dictlist(s[k]) ELSE dump_str(s[k])])

load_scenario(j) ==
    [k \in DOMAIN j.v |->
        IF k = "test_cases" THEN load_dictlist(j.v[k]) ELSE load_str(j.v[k])]

dump_scenarios(l) ==
    IF l = NoneList THEN JNull ELSE JArr([i \in DOMAIN l |-> dump_scenario(l[i])])

load_scenarios(j) ==
    IF j.t = "null" THEN NoneList ELSE [i \in DOMAIN j.v |-> load_scenario(j.v[i])]

dump_scenario_pack(sp) ==
    IF sp = NoneDict THEN JNull ELSE JObj([k \in DOMAIN sp |-> dump_scenarios(sp[k])])

load_scenario_pack(j) ==
    IF j.t = "null" THEN NoneDict ELSE [k \in DOMAIN j.v |-> load_scenarios(j.v[k])]

dump_product_pack(pp) ==
    JObj([ product |-> dump_strdict(pp.product),
           requirements |-> dump_dictlist(pp.requirements),
           business_rules |-> dump_strdict(pp.business_rules),
           output |-> JObj([hierarchy |-> dump_str(pp.output.hierarchy),
                            jira |-> dump_strdict(pp.output.jira)]) ])

load_product_pack(j) ==
    [ product |-> load_strdict(j.v.product),
      requirements |-> load_dictlist(j.v.requirements),
      business_rules |-> load_strdict(j.v.business_rules),
      output |-> [hierarchy |-> load_str(j.v.output.v.hierarchy),
                  jira |-> load_strdict(j.v.output.v.jira)] ]

\* the push result: a dict of lists of issue keys
dump_keylists(d) == JObj([k \in DOMAIN d |-> dump_strlist(d[k])])

load_keylists(j) == [k \in DOMAIN j.v |-> load_strlist(j.v[k])]

dump_field(k, v) ==
    CASE k = "sources" -> JArr([i \in DOMAIN v |-> dump_source(v[i])])
      [] k = "last_index_result" -> dump_strdict(v)
      [] k = "jira_issue_key" -> dump_str(v)
      [] k = "fetched_requirements" -> dump_dictlist(v)
      [] k = "product_pack" -> dump_product_pack(v)
      [] k = "scenario_pack" -> dump_scenario_pack(v)
      [] k = "last_jira_result" -> dump_keylists(v)
      [] k = "kb_ready" -> JBool(v)

load_field(k, j) ==
    CASE k = "sources" -> [i \in DOMAIN j.v |-> load_source(j.v[i])]
      [] k = "last_index_result" -> load_strdict(j)
      [] k = "jira_issue_key" -> load_str(j)
      [] k = "fetched_requirements" -> load_dictlist(j)
      [] k = "product_pack" -> load_product_pack(j)
      [] k = "scenario_pack" -> load_scenario_pack(j)
      [] k = "last_jira_result" -> load_keylists(j)
      [] k = "kb_ready" -> (j.t = "true")

json_dump(state) == JObj([k \in DOMAIN state |-> dump_field(k, state[k])])

json_load(doc) == [k \in DOMAIN doc.v |-> load_field(k, doc.v[k])]

\* os.path.join(DRAFT_DIR, f"{name}.json"): the file a draft name is saved to
DraftFile(name) == name \o ".json"

\* save_draft: the files after writing the state under the name
save_draft(fs, name, state) == Put(fs, DraftFile(name), json_dump(state))

\* list_drafts: the names of the files of DRAFT_DIR
list_drafts(fs) == DOMAIN fs

\* load_draft: the dict read from the file (the caller checks the file exists)
load_draft(fs, filename) == json_load(fs[filename])

(***************************************************************************)
(* The values the operator types and the remote service answers with.      *)
(***************************************************************************)
ProjectNames == {"rfid-warehouse", "acme"}

ApiBases == {DEFAULT_API_BASE, "http://qa:9000"}

Urls == {"https://ex.com/a", "ex.com"}

SourceModes == {"Auto-detect", "Web Page URL"}

IssueKeys == {"", " ", "RFID-9"}

Versions == {"", "2.0"}

DraftNames == {"a", "b"}

R1 == [id |-> "REQ-1", statement |-> "read a tag"]

R2 == [statement |-> "reject a duplicate"]

\* requirements the service returns with an empty statement, and with none
R3 == [id |-> "REQ-3", statement |-> ""]

R4 == [id |-> "REQ-4"]

\* an answer of the service: it raised (ok = FALSE) or returned data
Raised == [ok |-> FALSE, is_list |-> FALSE, data |-> <<>>]

Returned(d) == [ok |-> TRUE, is_list |-> FALSE, data |-> d]

ReturnedList(l) == [ok |-> TRUE, is_list |-> TRUE, data |-> l]

IndexAnswers == {Raised, Returned(EmptyDict), Returned([status |-> "indexed"])}

RequirementAnswers ==
    {Raised, Returned(EmptyDict), Returned([detail |-> "Not Found"]), ReturnedList(<<>>),
     ReturnedList(<<R1>>), ReturnedList(<<R1, R2>>), ReturnedList(<<R3, R4>>)}

TC1 == [tc_id |-> "TC-1", title |-> "Read, one tag", type |-> "Functional", priority |-> "High"]

TC2 == [tc_id |-> "TC-2", title |-> "Duplicate EPC", type |-> "Negative"]

\* test cases as a service may return them: title null, title and type missing
TC3 == [tc_id |-> "TC-3", title |-> None, type |-> "Functional"]

TC4 == [tc_id |-> "TC-4", priority |-> "Functional"]

ScA == [scenario_id |-> "SC-1", title |-> "Single read", objective |-> "Read one tag"]

ScB == [scenario_id |-> "SC-2", title |-> "Duplicates", objective |-> None,
        test_cases |-> <<>>]

ScC == [scenario_id |-> "SC-3", title |-> "Alerts"]

ScAEnriched == [scenario_id |-> "SC-1", title |-> "Single read",
                objective |-> "Read one tag", test_cases |-> <<TC1, TC2>>]

\* a scenario the service left without title and with test_cases null
ScNull == [scenario_id |-> "SC-4", title |-> None, test_cases |-> NoneList]

ScenarioAnswers ==
    {Raised, Returned([scenarios |-> <<>>]), Returned([scenarios |-> <<ScA, ScB, ScC>>])}

TestcaseAnswers ==
    {Raised,
     Returned([scenarios |-> <<ScA, ScB, ScC>>]),
     Returned([scenarios |-> <<ScAEnriched, ScB, ScC>>]),
     Returned([scenarios |-> <<ScB, ScAEnriched>>])}

\* a scenario whose test cases have every shape
ScD ==
    [scenario_id |-> "SC-5", title |-> "Mixed, all shapes,",
     test_cases |-> <<TC1, TC3, TC2, TC4>>]

\* the types offered by "Filter by type" that the test cases of the model use,
\* and one that none uses
TestcaseTypes == {"All", "Functional", "Negative", "Edge"}

\* what the operator types into "Search in test case title"
TitleKeywords == {"", "read", "DUPLICATE", "functional", "zzz"}

\* what the operator types into "Search scenarios"
SearchKeywords == {"", "read", "ALERT", "zzz"}

PushAnswers == {Raised, Returned([scenario_keys |-> <<"QA-1">>, testcase_keys |-> <<>>])}

\* datetime.now().strftime(...): the clock is not modelled beyond "some stamp"
Stamp == "2026-01-01 10:00"

\* a draft left in DRAFT_DIR by an earlier version of the console, which
\* wrote fewer fields
OldDraftFile == "old.json"

OldDraft ==
    JObj([ sources |-> JArr(<<>>),
           jira_issue_key |-> JStr("RFID-9"),
           kb_ready |-> JBool(TRUE) ])

\* a draft saved by an earlier session of this console after it had added a
\* source, built the knowledge base, linked an issue, fetched its requirements
\* and generated scenarios
EarlierDraftFile == "earlier.json"

EarlierState ==
    [ sources |-> << [type |-> "web", url |-> "https://ex.com/a", tags |-> <<>>] >>,
      last_index_result |-> [status |-> "indexed"],
      jira_issue_key |-> "RFID-9",
      fetched_requirements |-> <<R1>>,
      product_pack |-> default_project_settings,
      scenario_pack |-> [scenarios |-> <<ScA, ScB, ScC>>],
      last_jira_result |-> EmptyDict,
      kb_ready |-> TRUE ]

(***************************************************************************)
(* URL helpers (lines 80-90): urlparse and str.endswith on the model's     *)
(* URLs.                                                                   *)
(***************************************************************************)
urlparse(u) ==
    IF u = "https://ex.com/a" THEN [scheme |-> "https", netloc |-> "ex.com"]
    ELSE [scheme |-> "", netloc |-> ""]

is_valid_http_url(u) ==
    LET p == urlparse(strip(u)) IN p.scheme \in {"http", "https"} /\ p.netloc # ""

\* the URLs u with u.strip().lower().endswith(".pdf")
PdfUrls == {"https://ex.com/guide.pdf"}

guess_source_type_from_url(u) == IF u \in PdfUrls THEN "pdf" ELSE "web"

SampleSources ==
    << [type |-> "web", url |-> "https://example.com/rfid-docs/getting-started",
        tags |-> <<"sample", "web">>],
       [type |-> "pdf", url |-> "https://example.com/rfid-product-guide.pdf",
        tags |-> <<"sample", "pdf">>] >>

(***************************************************************************)
(* One run of the script.  A run starts from the session state SS and the  *)
(* files of DRAFT_DIR and carries the operator's event ev = [op, arg, res]:*)
(* the control that was used, what was typed or chosen, and the answer of  *)
(* the remote service if the control calls it.  An uncaught exception      *)
(* halts the run: the rest of the script is not executed.                  *)
(***************************************************************************)
SS ==
    [ project_name |-> project_name, api_base |-> api_base, step |-> step,
      sources |-> sources, last_index_result |-> last_index_result,
      jira_issue_key |-> jira_issue_key,
      fetched_requirements |-> fetched_requirements,
      requirements_last_fetched_at |-> requirements_last_fetched_at,
      product_pack |-> product_pack, scenario_pack |-> scenario_pack,
      last_jira_result |-> last_jira_result, kb_ready |-> kb_ready ]

Event(op, arg, res) == [op |-> op, arg |-> arg, res |-> res]

\* the flags of the progress checklist (lines 196-201)
sources_ok(ss) == Len(ss.sources) > 0

kb_ok(ss) == ss.last_index_result # EmptyDict \/ ss.kb_ready

jira_ok(ss) == strip(ss.jira_issue_key) # ""

\* faulty variant: the flag follows the requirements applied to the settings
req_ok_from_applied(ss) == requirements_count(ss.product_pack) > 0

req_ok(ss) == Len(ss.fetched_requirements) > 0

sc_ok(ss) == Len(scenario_list(ss.scenario_pack)) > 0

tc_ok(ss) == total_testcases(ss.scenario_pack) > 0

\* nothing rendered of the scenarios
NoView ==
    [metrics |-> <<>>, search |-> "", shown |-> <<>>, listed |-> <<>>, csv |-> <<>>,
     tcs |-> <<>>, filtered |-> <<>>]

StartRun(ss, fs, sv) ==
    [ss |-> ss, files |-> fs, saved |-> sv, notice |-> "none", halted |-> FALSE,
     requests |-> <<>>, view |-> NoView]

\* lines 182-191: the text inputs of the sidebar
SidebarInputs(r, ev) ==
    CASE ev.op = "project_name" -> [r EXCEPT !.ss.project_name = ev.arg]
      [] ev.op = "api_base" -> [r EXCEPT !.ss.api_base = ev.arg]
      [] OTHER -> r

\* faulty variant: a missing file is read as an empty draft
LoadDraftOrDefaults(r, ev) ==
    LET data == IF ev.arg \in list_drafts(r.files) THEN load_draft(r.files, ev.arg)
                ELSE EmptyDict
    IN  [r EXCEPT
            !.ss.sources = Get(data, "sources", <<>>),
            !.ss.last_index_result = Get(data, "last_index_result", EmptyDict),
            !.ss.jira_issue_key = Get(data, "jira_issue_key", ""),
            !.ss.fetched_requirements = Get(data, "fetched_requirements", <<>>),
            !.ss.product_pack = Get(data, "product_pack", default_project_settings),
            !.ss.scenario_pack = Get(data, "scenario_pack", EmptyDict),
            !.ss.last_jira_result = Get(data, "last_jira_result", EmptyDict),
            !.ss.kb_ready = Get(data, "kb_ready", FALSE),
            !.notice = IF ev.arg \in list_drafts(r.files) THEN "success" ELSE "exception"]

\* lines 219-230: the Load button
LoadDraft(r, ev) ==
    IF ev.arg \notin list_drafts(r.files)
    THEN [r EXCEPT !.notice = "exception", !.halted = TRUE]
    ELSE LET data == load_draft(r.files, ev.arg) IN
         [r EXCEPT
            !.ss.sources = Get(data, "sources", <<>>),
            !.ss.last_index_result = Get(data, "last_index_result", EmptyDict),
            !.ss.jira_issue_key = Get(data, "jira_issue_key", ""),
            !.ss.fetched_requirements = Get(data, "fetched_requirements", <<>>),
            !.ss.product_pack = Get(data, "product_pack", default_project_settings),
            !.ss.scenario_pack = Get(data, "scenario_pack", EmptyDict),
            !.ss.last_jira_result = Get(data, "last_jira_result", EmptyDict),
            !.ss.kb_ready = Get(data, "kb_ready", FALSE),
            !.notice = "success"]

\* faulty variant: New also empties DRAFT_DIR
NewDraftWipingStore(r) ==
    [r EXCEPT
        !.ss.sources = <<>>,
        !.ss.last_index_result = EmptyDict,
        !.ss.jira_issue_key = "",
        !.ss.fetched_requirements = <<>>,
        !.ss.product_pack = default_project_settings,
        !.ss.scenario_pack = EmptyDict,
        !.ss.last_jira_result = EmptyDict,
        !.ss.kb_ready = FALSE,
        !.files = <<>>,
        !.notice = "success"]

\* lines 232-241: the New button
NewDraft(r) ==
    [r EXCEPT
        !.ss.sources = <<>>,
        !.ss.last_index_result = EmptyDict,
        !.ss.jira_issue_key = "",
        !.ss.fetched_requirements = <<>>,
        !.ss.product_pack = default_project_settings,
        !.ss.scenario_pack = EmptyDict,
        !.ss.last_jira_result = EmptyDict,
        !.ss.kb_ready = FALSE,
        !.notice = "success"]

\* lines 245-254: the dict handed to save_draft
DraftState(ss) ==
    [ sources |-> ss.sources,
      last_index_result |-> ss.last_index_result,
      jira_issue_key |-> ss.jira_issue_key,
      fetched_requirements |-> ss.fetched_requirements,
      product_pack |-> ss.product_pack,
      scenario_pack |-> ss.scenario_pack,
      last_jira_result |-> ss.last_jira_result,
      kb_ready |-> ss.kb_ready ]

\* lines 243-256: the Save draft button
SaveDraft(r, ev) ==
    [r EXCEPT
        !.files = save_draft(r.files, ev.arg, DraftState(r.ss)),
        !.saved = Put(r.saved, DraftFile(ev.arg), DraftState(r.ss)),
        !.notice = "success"]

\* lines 197 and 199: two flags of the checklist as a run renders them, after
\* the inputs of the sidebar and before its draft buttons
rendered_kb_ok(r, ev) == kb_ok(SidebarInputs(r, ev).ss)

rendered_req_ok(r, ev) == req_ok(SidebarInputs(r, ev).ss)

\* lines 176-256
Sidebar(r, ev) ==
    LET a == SidebarInputs(r, ev) IN
    CASE ev.op = "load" -> LoadDraft(a, ev)
      [] ev.op = "new" -> NewDraft(a)
      [] ev.op = "save" -> SaveDraft(a, ev)
      [] OTHER -> a

\* faulty variant: a stage opens only after the stages before it are done
SelectStepInOrder(r, ev) ==
    IF ev.op = "step" /\ (ev.arg \in {steps[4], steps[5], steps[6]} => kb_ok(r.ss))
    THEN [r EXCEPT !.ss.step = ev.arg]
    ELSE r

\* line 273: the stage selector
SelectStep(r, ev) == IF ev.op = "step" THEN [r EXCEPT !.ss.step = ev.arg] ELSE r

\* faulty variant: a button reports its click although it is rendered disabled
ClickedThoughDisabled(ev, op, disabled) == ev.op = op

\* a button that is rendered disabled never reports a click
Clicked(ev, op, disabled) == ev.op = op /\ ~disabled

\* a request to the remote service made by the run
Request(path, payload) == [path |-> path, payload |-> payload]

Sent(r, path, payload) == [r EXCEPT !.requests = Append(@, Request(path, payload))]

\* line 315: the tags typed, already split at the commas
split_tags(pieces) ==
    LET kept == SelectSeq(pieces, LAMBDA t : strip(t) # "") IN
    [i \in DOMAIN kept |-> strip(kept[i])]

\* faulty variant: the new source is put in front of the list
AddSourceInFront(r, ev) ==
    LET url_str == strip(ev.arg.url)
        url_ok == url_str # "" /\ is_valid_http_url(url_str)
        chosen_type ==
            IF ~url_ok THEN None
            ELSE IF ev.arg.mode = "Auto-detect" THEN guess_source_type_from_url(url_str)
            ELSE IF ev.arg.mode = "PDF URL" THEN "pdf"
            ELSE "web"
    IN  IF Clicked(ev, "add_source", ~url_ok)
        THEN [r EXCEPT
                !.ss.sources = << [type |-> StrOr(chosen_type, "pdf"),
                                   url |-> url_str,
                                   tags |-> split_tags(ev.arg.tags)] >> \o @,
                !.notice = "success"]
        ELSE r

\* lines 286-318: the Add source form; ev.arg = [mode, url, tags]
AddSource(r, ev) ==
    LET url_str == strip(ev.arg.url)
        url_ok == url_str # "" /\ is_valid_http_url(url_str)
        chosen_type ==
            IF ~url_ok THEN None
            ELSE IF ev.arg.mode = "Auto-detect" THEN guess_source_type_from_url(url_str)
            ELSE IF ev.arg.mode = "PDF URL" THEN "pdf"
            ELSE "web"
    IN  IF Clicked(ev, "add_source", ~url_ok)
        THEN [r EXCEPT
                !.ss.sources = Append(@, [type |-> StrOr(chosen_type, "pdf"),
                                          url |-> url_str,
                                          tags |-> split_tags(ev.arg.tags)]),
                !.notice = "success"]
        ELSE r

\* faulty variant: clearing the sources also forgets the knowledge base
ClearSourcesAndIndex(r, ev) ==
    IF Clicked(ev, "clear_sources", r.ss.sources = <<>>)
    THEN [r EXCEPT !.ss.sources = <<>>, !.ss.kb_ready = FALSE,
                   !.ss.last_index_result = EmptyDict, !.notice = "success"]
    ELSE r

\* lines 331-333
ClearSources(r, ev) ==
    IF Clicked(ev, "clear_sources", r.ss.sources = <<>>)
    THEN [r EXCEPT !.ss.sources = <<>>, !.notice = "success"]
    ELSE r

\* lines 335-342
AddSampleSources(r, ev) ==
    IF Clicked(ev, "sample_sources", FALSE)
    THEN [r EXCEPT !.ss.sources = @ \o SampleSources, !.notice = "success"]
    ELSE r

\* faulty variant: the error path drops the scenarios
OnPipelineErrorClearing(q) == [q EXCEPT !.ss.scenario_pack = EmptyDict, !.notice = "error"]

\* the except branches of the pipeline buttons (lines 369-370, 582-585,
\* 669-672, 831-834): the error is shown, nothing is assigned
OnPipelineError(q) == [q EXCEPT !.notice = "error"]

\* faulty variant: kb_ready is not set
merge_index_result_unflagged(q, res) ==
    [q EXCEPT !.ss.last_index_result = res, !.notice = "success"]

\* faulty variant: kb_ready is set only when the answer holds something
merge_index_result_if_answered(q, res) ==
    [q EXCEPT !.ss.last_index_result = res,
              !.ss.kb_ready = IF res # EmptyDict THEN TRUE ELSE @,
              !.notice = "success"]

\* lines 366-368: the answer is stored and kb_ready set
merge_index_result(q, res) ==
    [q EXCEPT !.ss.last_index_result = res, !.ss.kb_ready = TRUE, !.notice = "success"]

\* faulty variant: a local merge that reverses the scenarios
merge_artifact_tree_reversing(q, res) ==
    LET scs == scenario_list(res) IN
    [q EXCEPT !.ss.scenario_pack =
                  [scenarios |-> [i \in DOMAIN scs |-> scs[Len(scs) + 1 - i]]],
              !.notice = "success"]

\* faulty variant: the scenarios of the answer are added to those held
merge_artifact_tree_appending(q, res) ==
    [q EXCEPT !.ss.scenario_pack =
                  [scenarios |-> scenario_list(q.ss.scenario_pack) \o scenario_list(res)],
              !.notice = "success"]

\* lines 580-581 and 667-668: the answer replaces scenario_pack
merge_artifact_tree(q, res) == [q EXCEPT !.ss.scenario_pack = res, !.notice = "success"]

\* lines 361-370
BuildKnowledgeBase(r, ev) ==
    IF Clicked(ev, "build", r.ss.sources = <<>>)
    THEN LET q == Sent(r, "/v1/index",
                       [tenant_id |-> r.ss.project_name, sources |-> r.ss.sources])
         IN  IF ev.res.ok
             THEN merge_index_result(q, ev.res.data)
             ELSE OnPipelineError(q)
    ELSE r

\* lines 278-378
Step1(r, ev) ==
    BuildKnowledgeBase(AddSampleSources(ClearSources(AddSource(r, ev), ev), ev), ev)

\* faulty variant: every list the service returns is stored, the empty one too
FetchRequirementsStoringEveryList(r, ev) ==
    LET issue_key == strip(r.ss.jira_issue_key) IN
    IF Clicked(ev, "fetch", issue_key = "")
    THEN LET q == Sent(r, "/v1/jira/requirements", issue_key) IN
         IF ~ev.res.ok THEN [q EXCEPT !.notice = "warning: no preview"]
         ELSE IF ev.res.is_list
         THEN [q EXCEPT !.ss.fetched_requirements = ev.res.data,
                        !.ss.requirements_last_fetched_at = Stamp,
                        !.notice = "success"]
         ELSE [q EXCEPT !.notice = "warning"]
    ELSE r

\* lines 403-422: the warning of line 414 for an answer without requirements,
\* the warning of lines 417-420 when the call raised
FetchRequirements(r, ev) ==
    LET issue_key == strip(r.ss.jira_issue_key) IN
    IF Clicked(ev, "fetch", issue_key = "")
    THEN LET q == Sent(r, "/v1/jira/requirements", issue_key) IN
         IF ~ev.res.ok THEN [q EXCEPT !.notice = "warning: no preview"]
         ELSE IF ev.res.is_list /\ ev.res.data # <<>>
         THEN [q EXCEPT !.ss.fetched_requirements = ev.res.data,
                        !.ss.requirements_last_fetched_at = Stamp,
                        !.notice = "success"]
         ELSE [q EXCEPT !.notice = "warning"]
    ELSE r

\* faulty variant: the list is emptied in place, through the shared reference
ClearRequirementsInPlace(r, ev) ==
    IF Clicked(ev, "clear_requirements", r.ss.fetched_requirements = <<>>)
    THEN [r EXCEPT !.ss.fetched_requirements = <<>>,
                   !.ss.product_pack.requirements =
                       IF @ = r.ss.fetched_requirements THEN <<>> ELSE @,
                   !.notice = "success"]
    ELSE r

\* lines 424-426
ClearRequirements(r, ev) ==
    IF Clicked(ev, "clear_requirements", r.ss.fetched_requirements = <<>>)
    THEN [r EXCEPT !.ss.fetched_requirements = <<>>, !.notice = "success"]
    ELSE r

\* lines 429-439: the button is rendered only while requirements are shown.
\* The assignment shares the list object with fetched_requirements; no
\* statement of the script changes a list of requirements in place.
UseRequirements(r, ev) ==
    IF r.ss.fetched_requirements # <<>> /\ Clicked(ev, "use_requirements", FALSE)
    THEN [r EXCEPT !.ss.product_pack.requirements = r.ss.fetched_requirements,
                   !.notice = "success"]
    ELSE r

\* lines 391-396
IssueKeyInput(r, ev) ==
    IF ev.op = "issue_key" THEN [r EXCEPT !.ss.jira_issue_key = ev.arg] ELSE r

\* lines 383-462
Step2(r, ev) ==
    UseRequirements(
        ClearRequirements(FetchRequirements(IssueKeyInput(r, ev), ev), ev), ev)

\* st.text_input(label, value=v): what was typed into it in this run, else v
TextInput(ev, label, v) == IF ev.op = "setting" /\ ev.arg = label THEN ev.res ELSE v

\* lines 471-535: every input of the page is written back into product_pack
Step3(r, ev) ==
    LET pp == r.ss.product_pack
        product ==
            [ name |-> TextInput(ev, "Product name", StrOr(pp.product.name, "")),
              vendor |-> TextInput(ev, "Vendor (optional)", StrOr(pp.product.vendor, "")),
              domain |-> TextInput(ev, "Domain", StrOr(pp.product.domain, "")),
              version |-> TextInput(ev, "Version (optional)", StrOr(pp.product.version, "")) ]
        rules ==
            [ rules_text |-> TextInput(ev, "Rules text",
                                       Get(pp.business_rules, "rules_text", "")) ]
        jira ==
            [ project_key |->
                TextInput(ev, "Jira Project Key", StrOr(pp.output.jira.project_key, "")),
              scenario_issue_type |->
                TextInput(ev, "Scenario Issue Type",
                          StrOr(pp.output.jira.scenario_issue_type, "Task")),
              testcase_issue_type |->
                TextInput(ev, "Test Case Issue Type",
                          StrOr(pp.output.jira.testcase_issue_type, "Sub-task")) ]
    IN  [r EXCEPT !.ss.product_pack =
            [pp EXCEPT !.product = product, !.business_rules = rules, !.output.jira = jira]]

\* faulty variant: the issue key is not considered
can_generate_by_value_only(ss) == requirements_count(ss.product_pack) > 0

\* line 567
can_generate(ss) == strip(ss.jira_issue_key) # "" \/ requirements_count(ss.product_pack) > 0

\* faulty variant: the key goes into the payload as it was typed
KeyOrNoneAsTyped(ss) == StrOr(ss.jira_issue_key, None)

\* jira_issue_key in a payload: issue_key or None
KeyOrNone(ss) == StrOr(strip(ss.jira_issue_key), None)

\* lines 549-585: the left column; ev.arg is the slider's max_scenarios
CreateScenarios(r, ev) ==
    IF Clicked(ev, "create_scenarios", ~can_generate(r.ss))
    THEN LET q == Sent(r, "/v1/scenarios",
                       [ tenant_id |-> r.ss.project_name,
                         product_pack |-> r.ss.product_pack,
                         max_scenarios |-> ev.arg,
                         jira_issue_key |-> KeyOrNone(r.ss),
                         fetch_requirements_from_jira |-> TRUE ])
         IN  IF ev.res.ok
             THEN merge_artifact_tree(q, ev.res.data)
             ELSE OnPipelineError(q)
    ELSE r

\* st.metric("Scenarios", ...) and st.metric("Total test cases", ...)
Metrics(sp) == <<Len(scenario_list(sp)), total_testcases(sp)>>

\* str.lower() on the strings of the model
lower(s) ==
    CASE s = "Single read Read one tag" -> "single read read one tag"
      [] s = "Duplicates " -> "duplicates "
      [] s = "Alerts " -> "alerts "
      [] s = "ALERT" -> "alert"
      [] s = "Read, one tag" -> "read, one tag"
      [] s = "Duplicate EPC" -> "duplicate epc"
      [] s = "DUPLICATE" -> "duplicate"
      [] s = "Functional" -> "functional"
      [] s = "Negative" -> "negative"
      [] OTHER -> s

\* the pairs <<a, b>> of the model's strings with a in b, a not empty
Substrings ==
    { <<"read", "single read read one tag">>, <<"alert", "alerts ">>,
      <<"read", "read, one tag">>, <<"duplicate", "duplicate epc">> }

\* faulty variant: a scenario without a title is never shown
shown_titled(scs, search) ==
    SelectSeq(scs, LAMBDA s :
        LET title == StrOr(Get(s, "title", None), "")
            obj == StrOr(Get(s, "objective", None), "")
            blob == lower(title \o " " \o obj)
        IN  title # "" /\ ~(search # "" /\ <<lower(search), blob>> \notin Substrings))

\* lines 604-611: the scenarios that the search keeps, in their order
shown(scs, search) ==
    SelectSeq(scs, LAMBDA s :
        LET title == StrOr(Get(s, "title", None), "")
            obj == StrOr(Get(s, "objective", None), "")
            blob == lower(title \o " " \o obj)
        IN  ~(search # "" /\ <<lower(search), blob>> \notin Substrings))

\* l[:n]
Take(l, n) == SubSeq(l, 1, IF n < Len(l) THEN n ELSE Len(l))

\* the value of the "Show top" slider as the script sets it (line 602)
show_top(scs) == IF Len(scs) < 12 THEN Len(scs) ELSE 12

\* lines 587-633: the right column; the search box holds what was typed in
\* this run
ScenarioResults(r, ev) ==
    LET sp == r.ss.scenario_pack
        scs == scenario_list(sp)
        search == IF ev.op = "search" THEN ev.arg ELSE ""
        kept == shown(scs, search)
    IN  IF scs = <<>> THEN r
        ELSE [r EXCEPT !.view.metrics = Metrics(sp),
                       !.view.search = search,
                       !.view.shown = kept,
                       !.view.listed = Take(kept, show_top(scs))]

\* lines 540-633
Step4(r, ev) ==
    IF ~(r.ss.kb_ready \/ r.ss.last_index_result # EmptyDict) THEN r
    ELSE ScenarioResults(CreateScenarios(r, ev), ev)

\* lines 657-672
CreateTestcases(r, ev) ==
    IF Clicked(ev, "create_testcases", FALSE)
    THEN LET q == Sent(r, "/v1/testcases",
                       [ tenant_id |-> r.ss.project_name,
                         product_pack |-> r.ss.product_pack,
                         scenario_pack |-> r.ss.scenario_pack,
                         jira_issue_key |-> KeyOrNone(r.ss),
                         fetch_requirements_from_jira |-> TRUE ])
         IN  IF ev.res.ok
             THEN merge_artifact_tree(q, ev.res.data)
             ELSE OnPipelineError(q)
    ELSE r

\* faulty variant: the keyword is looked for in the type as well
filtered_by_any_field(tcs, tc_type, q) ==
    SelectSeq(tcs, LAMBDA tc :
        /\ ~(tc_type # "All" /\ Get(tc, "type", None) # tc_type)
        /\ ~(q # "" /\ <<lower(q), lower(StrOr(Get(tc, "title", None), ""))>> \notin Substrings
                    /\ lower(q) # lower(Get(tc, "type", None))))

\* lines 701-707: the test cases that both filters keep, in their order
filtered(tcs, tc_type, q) ==
    SelectSeq(tcs, LAMBDA tc :
        /\ ~(tc_type # "All" /\ Get(tc, "type", None) # tc_type)
        /\ ~(q # "" /\ <<lower(q), lower(StrOr(Get(tc, "title", None), ""))>> \notin Substrings))

\* lines 679-709: the right column; the three inputs hold what was chosen in
\* this run, else their defaults; ev.arg = [idx, tc_type, q]
BrowseTestcases(r, ev) ==
    LET sp == r.ss.scenario_pack
        scs == scenario_list(sp)
        chosen == IF ev.op = "browse" THEN ev.arg
                  ELSE [idx |-> 0, tc_type |-> "All", q |-> ""]
    IN  IF total_testcases(sp) = 0 THEN r
        ELSE LET tcs == ListOr(Get(scs[chosen.idx + 1], "test_cases", NoneList), <<>>) IN
             [r EXCEPT !.view.tcs = tcs,
                       !.view.filtered = filtered(tcs, chosen.tc_type, chosen.q)]

\* lines 641-709: the stage stops without scenarios; the metrics follow the
\* button
Step5(r, ev) ==
    IF scenario_list(r.ss.scenario_pack) = <<>> THEN r
    ELSE LET q == CreateTestcases(r, ev) IN
         BrowseTestcases([q EXCEPT !.view.metrics = Metrics(q.ss.scenario_pack)], ev)

(***************************************************************************)
(* The text of the export is kept as its pieces: each comma is a piece of  *)
(* its own, the characters between two commas are one piece.               *)
(***************************************************************************)
\* the pieces of the strings of the model
Pieces(s) ==
    CASE s = "" -> <<>>
      [] s = "Read, one tag" -> <<"Read", ",", " one tag">>
      [] s = "Mixed, all shapes," -> <<"Mixed", ",", " all shapes", ",">>
      [] OTHER -> <<s>>

\* line 778
CsvHeader ==
    <<"scenario_id", ",", "scenario_title", ",", "tc_id", ",", "tc_title", ",",
      "tc_type", ",", "priority">>

\* t.replace(",", " ")
replace_comma(t) == [i \in DOMAIN t |-> IF t[i] = "," THEN " " ELSE t[i]]

\* ",".join(fields)
RECURSIVE join_comma(_)
join_comma(fields) ==
    IF fields = <<>> THEN <<>>
    ELSE IF Len(fields) = 1 THEN Head(fields)
    ELSE Head(fields) \o <<",">> \o join_comma(Tail(fields))

\* faulty variant: the field is emitted as it is
CsvFieldAsItIs(d, k) == Pieces(StrOr(Get(d, k, None), ""))

\* (d.get(k) or "").replace(",", " ")
CsvField(d, k) == replace_comma(Pieces(StrOr(Get(d, k, None), "")))

\* lines 783-790: ",".join of the six fields
csv_line(s, tc) ==
    join_comma(<< CsvField(s, "scenario_id"), CsvField(s, "title"),
                  CsvField(tc, "tc_id"), CsvField(tc, "title"),
                  CsvField(tc, "type"), CsvField(tc, "priority") >>)

\* the inner loop (lines 782-790): the lines of one scenario
scenario_lines(s) ==
    LET tcs == ListOr(Get(s, "test_cases", NoneList), <<>>) IN
    [j \in DOMAIN tcs |-> csv_line(s, tcs[j])]

\* faulty variant: a scenario without test cases gets a line of its own
RECURSIVE csv_lines_with_placeholders(_)
csv_lines_with_placeholders(scs) ==
    IF scs = <<>> THEN <<>>
    ELSE (IF scenario_lines(Head(scs)) = <<>>
          THEN << CsvField(Head(scs), "scenario_id") \o <<",">>
                      \o CsvField(Head(scs), "title") \o <<",", ",", ",", ",">> >>
          ELSE scenario_lines(Head(scs)))
         \o csv_lines_with_placeholders(Tail(scs))

\* the outer loop (lines 779-790): the lines appended after the header
RECURSIVE csv_lines(_)
csv_lines(scs) ==
    IF scs = <<>> THEN <<>>
    ELSE scenario_lines(Head(scs)) \o csv_lines(Tail(scs))

\* lines 777-798: csv_data is the lines joined by line ends; the model keeps
\* the lines
CreateFlatCsv(r, ev) ==
    IF Clicked(ev, "csv", FALSE)
    THEN [r EXCEPT !.view.csv = <<CsvHeader>> \o csv_lines(scenario_list(r.ss.scenario_pack))]
    ELSE r

\* lines 821-834; ev.arg is the label_prefix chosen
SendToJira(r, ev) ==
    LET sp == r.ss.scenario_pack
        scs == scenario_list(sp)
    IN  IF Clicked(ev, "push", scs = <<>>)
        THEN LET q == Sent(r, "/v1/jira/push",
                           [ product_pack |-> r.ss.product_pack,
                             scenario_pack |-> sp,
                             label_prefix |-> ev.arg ])
             IN  IF ev.res.ok
                 THEN [q EXCEPT !.ss.last_jira_result = ev.res.data, !.notice = "success"]
                 ELSE OnPipelineError(q)
        ELSE r

\* lines 752-851: the stage stops without scenarios
Step6(r, ev) ==
    IF scenario_list(r.ss.scenario_pack) = <<>> THEN r
    ELSE LET c == CreateFlatCsv(r, ev) IN
         SendToJira([c EXCEPT !.view.metrics = Metrics(r.ss.scenario_pack)], ev)

\* lines 278-851: the body of the selected stage
Body(r, ev) ==
    CASE r.ss.step = steps[1] -> Step1(r, ev)
      [] r.ss.step = steps[2] -> Step2(r, ev)
      [] r.ss.step = steps[3] -> Step3(r, ev)
      [] r.ss.step = steps[4] -> Step4(r, ev)
      [] r.ss.step = steps[5] -> Step5(r, ev)
      [] r.ss.step = steps[6] -> Step6(r, ev)

\* the whole script, lines 171-857
Script(r, ev) ==
    LET a == Sidebar(r, ev) IN
    IF a.halted THEN a ELSE Body(SelectStep(a, ev), ev)

Run(ev) == Script(StartRun(SS, files, saved), ev)

\* the next run of the script, on what the run r left
RunFrom(r, ev) == Script(StartRun(r.ss, r.files, r.saved), ev)

(***************************************************************************)
(* The state machine.                                                      *)
(***************************************************************************)
\* _init_state (lines 139-168) and the first run of the script
Init ==
    /\ project_name = "rfid-warehouse"
    /\ api_base = DEFAULT_API_BASE
    /\ step = steps[1]
    /\ sources = <<>>
    /\ last_index_result = EmptyDict
    /\ jira_issue_key = ""
    /\ fetched_requirements = <<>>
    /\ requirements_last_fetched_at = None
    /\ product_pack = default_project_settings
    /\ scenario_pack = EmptyDict
    /\ last_jira_result = EmptyDict
    /\ kb_ready = FALSE
    /\ files = [f \in {OldDraftFile, EarlierDraftFile} |->
                    IF f = OldDraftFile THEN OldDraft ELSE json_dump(EarlierState)]
    /\ drafts = list_drafts(files)
    /\ notice = "none"
    /\ saved = <<>>
    /\ view = NoView
    /\ n_events = 0

\* the state a run leaves behind
Commit(r) ==
    /\ project_name' = r.ss.project_name
    /\ api_base' = r.ss.api_base
    /\ step' = r.ss.step
    /\ sources' = r.ss.sources
    /\ last_index_result' = r.ss.last_index_result
    /\ jira_issue_key' = r.ss.jira_issue_key
    /\ fetched_requirements' = r.ss.fetched_requirements
    /\ requirements_last_fetched_at' = r.ss.requirements_last_fetched_at
    /\ product_pack' = r.ss.product_pack
    /\ scenario_pack' = r.ss.scenario_pack
    /\ last_jira_result' = r.ss.last_jira_result
    /\ kb_ready' = r.ss.kb_ready
    /\ files' = r.files
    /\ notice' = r.notice
    /\ saved' = r.saved
    /\ view' = r.view
    /\ drafts' = list_drafts(files)

\* one run of the script on the operator's event
Do(ev) ==
    /\ n_events < MaxEvents
    /\ n_events' = n_events + 1
    /\ Commit(Run(ev))

\* the events of each control, over the values of the model
ProjectNameEvents == {Event("project_name", v, None) : v \in ProjectNames}

ApiBaseEvents == {Event("api_base", v, None) : v \in ApiBases}

LoadEvents == {Event("load", f, None) : f \in drafts}

NewEvents == {Event("new", None, None)}

SaveEvents == {Event("save", n, None) : n \in DraftNames}

StepEvents == {Event("step", s, None) : s \in Steps}

AddSourceEvents ==
    {Event("add_source", [mode |-> m, url |-> u, tags |-> <<"">>], None) :
        m \in SourceModes, u \in Urls}

ClearSourcesEvents == {Event("clear_sources", None, None)}

SampleSourcesEvents == {Event("sample_sources", None, None)}

BuildEvents == {Event("build", None, a) : a \in IndexAnswers}

IssueKeyEvents == {Event("issue_key", k, None) : k \in IssueKeys}

FetchEvents == {Event("fetch", None, a) : a \in RequirementAnswers}

ClearRequirementsEvents == {Event("clear_requirements", None, None)}

UseRequirementsEvents == {Event("use_requirements", None, None)}

SettingEvents == {Event("setting", "Version (optional)", v) : v \in Versions}

CreateScenariosEvents == {Event("create_scenarios", 20, a) : a \in ScenarioAnswers}

CreateTestcasesEvents == {Event("create_testcases", None, a) : a \in TestcaseAnswers}

PushEvents == {Event("push", <<"QA", "AutoGen">>, a) : a \in PushAnswers}

SearchEvents == {Event("search", k, None) : k \in SearchKeywords}

CsvEvents == {Event("csv", None, None)}

\* "Pick a scenario" offers range(len(scs))
BrowseEvents ==
    {Event("browse", [idx |-> i, tc_type |-> t, q |-> k], None) :
        i \in 0..(Len(scenario_list(scenario_pack)) - 1),
        t \in TestcaseTypes, k \in TitleKeywords}

EditProjectName == \E ev \in ProjectNameEvents : Do(ev)

EditApiBase == \E ev \in ApiBaseEvents : Do(ev)

Load == \E ev \in LoadEvents : Do(ev)

New == \E ev \in NewEvents : Do(ev)

Save == \E ev \in SaveEvents : Do(ev)

ChooseStep == \E ev \in StepEvents : Do(ev)

AddSourceClick ==
    /\ step = steps[1]
    /\ Len(sources) < MaxSources
    /\ \E ev \in AddSourceEvents : Do(ev)

ClearSourcesClick == step = steps[1] /\ \E ev \in ClearSourcesEvents : Do(ev)

AddSampleSourcesClick ==
    /\ step = steps[1]
    /\ Len(sources) + Len(SampleSources) <= MaxSources
    /\ \E ev \in SampleSourcesEvents : Do(ev)

BuildClick == step = steps[1] /\ \E ev \in BuildEvents : Do(ev)

EditIssueKey == step = steps[2] /\ \E ev \in IssueKeyEvents : Do(ev)

FetchClick == step = steps[2] /\ \E ev \in FetchEvents : Do(ev)

ClearRequirementsClick == step = steps[2] /\ \E ev \in ClearRequirementsEvents : Do(ev)

UseRequirementsClick == step = steps[2] /\ \E ev \in UseRequirementsEvents : Do(ev)

EditSettings == step = steps[3] /\ \E ev \in SettingEvents : Do(ev)

CreateScenariosClick == step = steps[4] /\ \E ev \in CreateScenariosEvents : Do(ev)

CreateTestcasesClick == step = steps[5] /\ \E ev \in CreateTestcasesEvents : Do(ev)

PushClick == step = steps[6] /\ \E ev \in PushEvents : Do(ev)

SearchScenarios == step = steps[4] /\ \E ev \in SearchEvents : Do(ev)

CreateFlatCsvClick == step = steps[6] /\ \E ev \in CsvEvents : Do(ev)

BrowseTestcasesInput ==
    /\ step = steps[5]
    /\ total_testcases(scenario_pack) > 0
    /\ \E ev \in BrowseEvents : Do(ev)

\* the environment: a file of DRAFT_DIR is removed behind the console's back
RemoveDraftFile ==
    /\ n_events < MaxEvents
    /\ n_events' = n_events + 1
    /\ \E f \in DOMAIN files : files' = [g \in DOMAIN files \ {f} |-> files[g]]
    /\ UNCHANGED <<project_name, api_base, step, sources, last_index_result,
                   jira_issue_key, fetched_requirements, requirements_last_fetched_at,
                   product_pack, scenario_pack, last_jira_result, kb_ready, notice,
                   drafts, saved, view>>

Next ==
    \/ EditProjectName
    \/ EditApiBase
    \/ Load
    \/ New
    \/ Save
    \/ ChooseStep
    \/ AddSourceClick
    \/ ClearSourcesClick
    \/ AddSampleSourcesClick
    \/ BuildClick
    \/ EditIssueKey
    \/ FetchClick
    \/ ClearRequirementsClick
    \/ UseRequirementsClick
    \/ EditSettings
    \/ CreateScenariosClick
    \/ CreateTestcasesClick
    \/ PushClick
    \/ SearchScenarios
    \/ CreateFlatCsvClick
    \/ BrowseTestcasesInput
    \/ RemoveDraftFile

Spec == Init /\ [][Next]_vars

(***************************************************************************)
(* Sessions that browse and export.  scenario_pack is whatever the service *)
(* answered (lines 580 and 667 store the answer as it is) or a draft held  *)
(* (line 227), so such a session starts with any tree: None, a dict        *)
(* without scenarios, scenarios null, or up to MaxScenarios scenarios of   *)
(* every shape.  The knowledge base is ready, as it is after an index.     *)
(***************************************************************************)
ScenarioShapes == {ScA, ScB, ScC, ScAEnriched, ScNull}

Trees ==
    {NoneDict, EmptyDict, [scenarios |-> NoneList]}
        \cup {[scenarios |-> l] :
                l \in UNION {[1..n -> ScenarioShapes] : n \in 0..MaxScenarios}}

InitViews ==
    /\ project_name = "rfid-warehouse"
    /\ api_base = DEFAULT_API_BASE
    /\ step = steps[1]
    /\ sources = <<>>
    /\ last_index_result = EmptyDict
    /\ jira_issue_key = ""
    /\ fetched_requirements = <<>>
    /\ requirements_last_fetched_at = None
    /\ product_pack = default_project_settings
    /\ scenario_pack \in Trees
    /\ last_jira_result = EmptyDict
    /\ kb_ready = TRUE
    /\ files = <<>>
    /\ drafts = list_drafts(files)
    /\ notice = "none"
    /\ saved = <<>>
    /\ view = NoView
    /\ n_events = 0

NextViews ==
    \/ ChooseStep
    \/ SearchScenarios
    \/ CreateFlatCsvClick

SpecViews == InitViews /\ [][NextViews]_vars

(***************************************************************************)
(* Sessions that browse and export test cases: the tree holds a scenario   *)
(* with commas in its title whose test cases have, one each, a comma in    *)
(* the title, a null title, no priority, and neither title nor type.       *)
(***************************************************************************)
BrowseTrees ==
    { [scenarios |-> <<ScD>>], [scenarios |-> <<ScB, ScD>>],
      [scenarios |-> <<ScAEnriched, ScNull, ScD>>], [scenarios |-> <<ScA>>] }

InitBrowse ==
    /\ project_name = "rfid-warehouse"
    /\ api_base = DEFAULT_API_BASE
    /\ step = steps[1]
    /\ sources = <<>>
    /\ last_index_result = EmptyDict
    /\ jira_issue_key = ""
    /\ fetched_requirements = <<>>
    /\ requirements_last_fetched_at = None
    /\ product_pack = default_project_settings
    /\ scenario_pack \in BrowseTrees
    /\ last_jira_result = EmptyDict
    /\ kb_ready = TRUE
    /\ files = <<>>
    /\ drafts = list_drafts(files)
    /\ notice = "none"
    /\ saved = <<>>
    /\ view = NoView
    /\ n_events = 0

NextBrowse ==
    \/ ChooseStep
    \/ BrowseTestcasesInput
    \/ CreateFlatCsvClick

SpecBrowse == InitBrowse /\ [][NextBrowse]_vars

(***************************************************************************)
(* Sessions that generate.  The issue key is whatever was typed on stage 2 *)
(* (line 391 stores the text as typed): empty, blank, a key, or a key with *)
(* blanks around it.  The knowledge base is ready and the session holds no *)
(* scenarios or some.                                                      *)
(***************************************************************************)
TypedKeys == {"", " ", "RFID-9", " RFID-9 "}

InitKeys ==
    /\ project_name = "rfid-warehouse"
    /\ api_base = DEFAULT_API_BASE
    /\ step = steps[1]
    /\ sources = <<>>
    /\ last_index_result = EmptyDict
    /\ jira_issue_key \in TypedKeys
    /\ fetched_requirements = <<>>
    /\ requirements_last_fetched_at = None
    /\ product_pack = default_project_settings
    /\ scenario_pack \in {EmptyDict, [scenarios |-> <<ScB, ScNull>>]}
    /\ last_jira_result = EmptyDict
    /\ kb_ready = TRUE
    /\ files = <<>>
    /\ drafts = list_drafts(files)
    /\ notice = "none"
    /\ saved = <<>>
    /\ view = NoView
    /\ n_events = 0

NextKeys ==
    \/ ChooseStep
    \/ CreateScenariosClick
    \/ CreateTestcasesClick

SpecKeys == InitKeys /\ [][NextKeys]_vars

(***************************************************************************)
(* Vocabulary of the properties.                                           *)
(***************************************************************************)
\* P holds of every event the operator can cause in the current state
EveryEvent(P(_)) ==
    /\ \A ev \in ProjectNameEvents \cup ApiBaseEvents : P(ev)
    /\ \A ev \in LoadEvents \cup NewEvents \cup SaveEvents \cup StepEvents : P(ev)
    /\ \A ev \in AddSourceEvents : P(ev)
    /\ \A ev \in ClearSourcesEvents \cup SampleSourcesEvents : P(ev)
    /\ \A ev \in BuildEvents : P(ev)
    /\ \A ev \in IssueKeyEvents : P(ev)
    /\ \A ev \in FetchEvents : P(ev)
    /\ \A ev \in ClearRequirementsEvents \cup UseRequirementsEvents : P(ev)
    /\ \A ev \in SettingEvents : P(ev)
    /\ \A ev \in CreateScenariosEvents : P(ev)
    /\ \A ev \in CreateTestcasesEvents : P(ev)
    /\ \A ev \in PushEvents : P(ev)
    /\ \A ev \in SearchEvents \cup CsvEvents : P(ev)
    /\ \A ev \in BrowseEvents : P(ev)

\* P holds of every event that calls the remote service
EveryPipelineEvent(P(_)) ==
    /\ \A ev \in BuildEvents : P(ev)
    /\ \A ev \in FetchEvents : P(ev)
    /\ \A ev \in CreateScenariosEvents : P(ev)
    /\ \A ev \in CreateTestcasesEvents : P(ev)
    /\ \A ev \in PushEvents : P(ev)

\* the run made a request and the service raised
Failed(r, ev) == r.requests # <<>> /\ ~ev.res.ok

\* the run made a request and the service returned
Succeeded(r, ev) == r.requests # <<>> /\ ev.res.ok

\* the scenario_id of each scenario, in order
ScenarioIds(sp) ==
    LET scs == scenario_list(sp) IN [i \in DOMAIN scs |-> Get(scs[i], "scenario_id", None)]

(***************************************************************************)
(* C1.  Round trip of drafts: loading a draft that this session saved      *)
(* gives back, field for field, the persistable state of the save.         *)
(* The code breaks it on the Project Settings stage, whose page writes     *)
(* product.version = "" over a loaded None.                                *)
(***************************************************************************)
C1_RoundTrip ==
    \A ev \in LoadEvents :
        (ev.arg \in DOMAIN saved /\ ev.arg \in DOMAIN files)
            => DraftState(Run(ev).ss) = saved[ev.arg]

(***************************************************************************)
(* C2.  A pipeline call that fails changes no field of the workflow state. *)
(***************************************************************************)
C2_FailureKeepsState ==
    EveryPipelineEvent(LAMBDA ev :
        LET r == Run(ev) IN
        Failed(r, ev) =>
            /\ r.ss.sources = sources
            /\ r.ss.last_index_result = last_index_result
            /\ r.ss.kb_ready = kb_ready
            /\ r.ss.fetched_requirements = fetched_requirements
            /\ r.ss.product_pack = product_pack
            /\ r.ss.scenario_pack = scenario_pack
            /\ r.ss.last_jira_result = last_jira_result)

\* a generation of test cases has failed and the scenarios are still there
C2_Witness ==
    /\ notice = "error"
    /\ step = steps[5]
    /\ scenario_list(scenario_pack) # <<>>

(***************************************************************************)
(* C3.  On the scenario stage, a click on Create scenarios sends a request *)
(* exactly when the knowledge base is ready and the trimmed issue key or   *)
(* the applied requirements are non-empty.                                 *)
(***************************************************************************)
C3_GateWithKnowledgeBase ==
    step = steps[4] =>
        \A ev \in CreateScenariosEvents :
            Run(ev).requests # <<>>
                <=> /\ kb_ready \/ last_index_result # EmptyDict
                    /\ strip(jira_issue_key) # "" \/ Len(product_pack.requirements) > 0

\* C3 as claimed: the gate is the issue key or the requirements alone
C3_GateAsClaimed ==
    step = steps[4] =>
        \A ev \in CreateScenariosEvents :
            Run(ev).requests # <<>>
                <=> (jira_issue_key # "" \/ Len(product_pack.requirements) > 0)

\* scenarios were generated from the issue key alone
C3_Witness ==
    /\ step = steps[4]
    /\ notice = "success"
    /\ jira_issue_key = "RFID-9"
    /\ Len(product_pack.requirements) = 0
    /\ scenario_list(scenario_pack) # <<>>

(***************************************************************************)
(* C4.  The requirements applied to product_pack are a snapshot: no event  *)
(* other than Use these requirements, New and Load changes them, whatever  *)
(* happens to the fetched list.                                            *)
(***************************************************************************)
C4_AppliedRequirementsAreSnapshot ==
    EveryEvent(LAMBDA ev :
        ev.op \notin {"use_requirements", "new", "load"}
            => Run(ev).ss.product_pack.requirements = product_pack.requirements)

\* requirements were applied and the fetched list has changed since
C4_Witness ==
    /\ step = steps[2]
    /\ product_pack.requirements # <<>>
    /\ fetched_requirements # product_pack.requirements

(***************************************************************************)
(* C5.  A successful Create test cases stores the answer as returned: the  *)
(* scenarios keep their ids, number and order whenever the answer lists    *)
(* them as the request did.                                                *)
(***************************************************************************)
C5_OrderIsTheAnswers ==
    \A ev \in CreateTestcasesEvents :
        LET r == Run(ev) IN
        Succeeded(r, ev) =>
            /\ scenario_list(r.ss.scenario_pack) = scenario_list(ev.res.data)
            /\ ScenarioIds(ev.res.data) = ScenarioIds(scenario_pack)
                   => ScenarioIds(r.ss.scenario_pack) = ScenarioIds(scenario_pack)

\* C5 as claimed: the scenario ids survive whatever the service answers
C5_OrderForEveryAnswer ==
    \A ev \in CreateTestcasesEvents :
        LET r == Run(ev) IN
        Succeeded(r, ev) => ScenarioIds(r.ss.scenario_pack) = ScenarioIds(scenario_pack)

\* test cases were generated and the three scenarios are in their order
C5_Witness ==
    /\ step = steps[5]
    /\ notice = "success"
    /\ total_testcases(scenario_pack) > 0
    /\ ScenarioIds(scenario_pack) = <<"SC-1", "SC-2", "SC-3">>

(***************************************************************************)
(* C6.  After a successful index kb_ok is true; after a successful         *)
(* scenario generation sc_ok is true exactly when the answer has a         *)
(* scenario; after a successful test-case generation tc_ok is true exactly *)
(* when the answer has a test case.                                        *)
(***************************************************************************)
C6_FlagsFollowTheAnswer ==
    /\ \A ev \in BuildEvents :
          LET r == Run(ev) IN Succeeded(r, ev) => kb_ok(r.ss)
    /\ \A ev \in CreateScenariosEvents :
          LET r == Run(ev) IN
          Succeeded(r, ev) => (sc_ok(r.ss) <=> scenario_list(ev.res.data) # <<>>)
    /\ \A ev \in CreateTestcasesEvents :
          LET r == Run(ev) IN
          Succeeded(r, ev) => (tc_ok(r.ss) <=> total_testcases(ev.res.data) > 0)

\* C6 as claimed: every successful action sets its flag
C6_FlagsAlwaysSet ==
    /\ \A ev \in BuildEvents :
          LET r == Run(ev) IN Succeeded(r, ev) => kb_ok(r.ss)
    /\ \A ev \in CreateScenariosEvents :
          LET r == Run(ev) IN Succeeded(r, ev) => sc_ok(r.ss)
    /\ \A ev \in CreateTestcasesEvents :
          LET r == Run(ev) IN Succeeded(r, ev) => tc_ok(r.ss)

\* a generation succeeded with an answer that holds no scenario
C6_Witness ==
    /\ step = steps[4]
    /\ notice = "success"
    /\ scenario_pack = [scenarios |-> <<>>]

(***************************************************************************)
(* C7.  After New every field of the workflow state has its default value. *)
(* The code leaves project_name, api_base and requirements_last_fetched_at *)
(* as they were.                                                           *)
(***************************************************************************)
C7_NewResetsEveryField ==
    \A ev \in NewEvents :
        LET r == Run(ev) IN
        /\ r.ss.project_name = "rfid-warehouse"
        /\ r.ss.api_base = DEFAULT_API_BASE
        /\ r.ss.sources = <<>>
        /\ r.ss.last_index_result = EmptyDict
        /\ r.ss.jira_issue_key = ""
        /\ r.ss.fetched_requirements = <<>>
        /\ r.ss.requirements_last_fetched_at = None
        /\ r.ss.product_pack = default_project_settings
        /\ r.ss.scenario_pack = EmptyDict
        /\ r.ss.last_jira_result = EmptyDict
        /\ r.ss.kb_ready = FALSE

(***************************************************************************)
(* C8.  Only Save changes the Draft Store: every other event of the        *)
(* console leaves the files of DRAFT_DIR as they are.                      *)
(***************************************************************************)
C8_OnlySaveWritesDrafts ==
    EveryEvent(LAMBDA ev : ev.op # "save" => Run(ev).files = files)

\* a draft was saved from a state with sources and the session was then reset
C8_Witness ==
    /\ DraftFile("a") \in DOMAIN files
    /\ DraftFile("a") \in DOMAIN saved
    /\ saved[DraftFile("a")].sources # <<>>
    /\ sources = <<>>
    /\ jira_issue_key = ""
    /\ notice = "success"

(***************************************************************************)
(* C9.  Load sets every persistable field to the draft's value, or to the  *)
(* field's default when the draft lacks it, and does not fail.             *)
(* The code breaks it on the Project Settings stage, as in C1.             *)
(***************************************************************************)
C9_LoadReplacesEveryField ==
    \A ev \in LoadEvents :
        ev.arg \in DOMAIN files =>
            LET r == Run(ev)
                data == json_load(files[ev.arg])
            IN  /\ ~r.halted
                /\ r.ss.sources = Get(data, "sources", <<>>)
                /\ r.ss.last_index_result = Get(data, "last_index_result", EmptyDict)
                /\ r.ss.jira_issue_key = Get(data, "jira_issue_key", "")
                /\ r.ss.fetched_requirements = Get(data, "fetched_requirements", <<>>)
                /\ r.ss.product_pack = Get(data, "product_pack", default_project_settings)
                /\ r.ss.scenario_pack = Get(data, "scenario_pack", EmptyDict)
                /\ r.ss.last_jira_result = Get(data, "last_jira_result", EmptyDict)
                /\ r.ss.kb_ready = Get(data, "kb_ready", FALSE)

(***************************************************************************)
(* C10.  Loading a draft whose file is gone is reported as an error and    *)
(* changes no field of the session state.                                  *)
(***************************************************************************)
C10_MissingDraftChangesNothing ==
    \A ev \in LoadEvents :
        ev.arg \notin DOMAIN files =>
            LET r == Run(ev) IN r.notice = "exception" /\ r.ss = SS

\* a Load has hit a missing file
C10_Witness == notice = "exception"

(***************************************************************************)
(* C11.  Save under a name stores the current persistable state under that *)
(* name, replacing what was there, leaves every other draft and the        *)
(* session state as they were, and a later Load of the name gives the      *)
(* state of its latest save.                                               *)
(* The code breaks the last part on the Project Settings stage, as in C1.  *)
(***************************************************************************)
C11_SaveIsLastWriterWins ==
    /\ \A ev \in SaveEvents :
          LET r == Run(ev)
              n == DraftFile(ev.arg)
          IN  /\ DOMAIN r.files = DOMAIN files \cup {n}
              /\ json_load(r.files[n]) = DraftState(SS)
              /\ \A f \in DOMAIN files \ {n} : r.files[f] = files[f]
              /\ r.ss = SS
    /\ \A ev \in LoadEvents :
          (ev.arg \in DOMAIN saved /\ ev.arg \in DOMAIN files)
              => DraftState(Run(ev).ss) = saved[ev.arg]

(***************************************************************************)
(* C12.  total_testcases of a tree is the number of its test cases: the    *)
(* sum over its scenarios of the length of test_cases, where a missing or  *)
(* null test_cases counts zero and a tree that is None, or has no          *)
(* scenarios or null scenarios, counts zero; the metric shown is that      *)
(* number.                                                                 *)
(***************************************************************************)
\* the test cases of a tree as pairs <<scenario index, test case index>>
TestcasePairs(sp) ==
    LET scs == IF sp = NoneDict THEN <<>>
               ELSE IF "scenarios" \notin DOMAIN sp THEN <<>>
               ELSE IF sp.scenarios = NoneList THEN <<>>
               ELSE sp.scenarios
        n(i) == IF "test_cases" \notin DOMAIN scs[i] THEN 0
                ELSE IF scs[i].test_cases = NoneList THEN 0
                ELSE Len(scs[i].test_cases)
    IN  UNION {{<<i, j>> : j \in 1..n(i)} : i \in DOMAIN scs}

C12_TotalIsTheSum ==
    /\ total_testcases(scenario_pack) = Cardinality(TestcasePairs(scenario_pack))
    /\ view.metrics # <<>> => view.metrics[2] = Cardinality(TestcasePairs(scenario_pack))

\* the metric shows 2 for a tree of a scenario with two test cases, one with
\* test_cases null and one without the field
C12_Witness ==
    /\ scenario_pack = [scenarios |-> <<ScAEnriched, ScNull, ScA>>]
    /\ view.metrics = <<3, 2>>

(***************************************************************************)
(* C13.  The flat CSV has, after its header, one line per test case of the *)
(* tree: total_testcases lines, in the order of the scenarios and, within  *)
(* a scenario, of its test cases; a scenario without test cases has no     *)
(* line.                                                                   *)
(***************************************************************************)
\* the place of the pair p among the pairs, scenario first
Rank(p, pairs) ==
    Cardinality({q \in pairs : q[1] < p[1] \/ (q[1] = p[1] /\ q[2] <= p[2])})

C13_RowsAreTheTestcases ==
    (step = steps[6] /\ scenario_list(scenario_pack) # <<>>) =>
        \A ev \in CsvEvents :
            LET lines == Run(ev).view.csv
                scs == scenario_pack.scenarios
                pairs == TestcasePairs(scenario_pack)
            IN  /\ Len(lines) = 1 + total_testcases(scenario_pack)
                /\ lines[1] = CsvHeader
                /\ \A p \in pairs :
                      lines[1 + Rank(p, pairs)] = csv_line(scs[p[1]], scs[p[1]].test_cases[p[2]])

\* the CSV of three scenarios with 2, 0 and 0 test cases: header and 2 lines
C13_Witness ==
    /\ scenario_pack = [scenarios |-> <<ScAEnriched, ScB, ScC>>]
    /\ Len(view.csv) = 3

(***************************************************************************)
(* C14.  A search with an empty keyword shows every scenario of the tree,  *)
(* in the tree's order; a search changes nothing of the session state, and *)
(* what a search shows does not depend on the searches before it.          *)
(***************************************************************************)
C14_SearchIsAView ==
    (step = steps[4] /\ scenario_list(scenario_pack) # <<>>) =>
        \A ev \in SearchEvents :
            LET r == Run(ev) IN
            /\ r.ss = SS
            /\ ev.arg = "" => r.view.shown = scenario_pack.scenarios
            /\ \A ev2 \in SearchEvents :
                  LET r2 == RunFrom(r, ev2) IN
                  r2.ss = SS /\ r2.view.shown = Run(ev2).view.shown

\* a search for "read" has shown one scenario of three, one of them without
\* a title
C14_Witness ==
    /\ step = steps[4]
    /\ view.search = "read"
    /\ scenario_pack = [scenarios |-> <<ScNull, ScA, ScC>>]
    /\ view.shown = <<ScA>>

(***************************************************************************)
(* C15.  The checklist flag req_ok is true exactly when                    *)
(* fetched_requirements is non-empty, whatever product_pack.requirements   *)
(* holds: clearing the fetched list after applying it leaves the flag      *)
(* false, and so does loading a draft saved in that state.                 *)
(***************************************************************************)
C15_FlagFollowsFetched ==
    [](/\ EveryEvent(LAMBDA ev :
             rendered_req_ok(StartRun(SS, files, saved), ev) <=> fetched_requirements # <<>>)
       /\ step = steps[2] =>
             \A ev \in ClearRequirementsEvents :
                 LET r == Run(ev) IN
                 /\ ~req_ok(r.ss)
                 /\ r.ss.product_pack.requirements = product_pack.requirements
                 /\ \A n \in DraftNames, s \in StepEvents :
                       LET saving == RunFrom(r, Event("save", n, None))
                           loading == RunFrom(saving, Event("load", DraftFile(n), None))
                       IN  ~rendered_req_ok(loading, s))

\* requirements were applied and the fetched list was cleared afterwards
C15_Witness ==
    /\ step = steps[2]
    /\ notice = "success"
    /\ product_pack.requirements # <<>>
    /\ fetched_requirements = <<>>

(***************************************************************************)
(* C16.  A successful index stores the answer in last_index_result and     *)
(* sets kb_ready, whatever the answer; the flag kb_ok is true exactly when *)
(* kb_ready is true or last_index_result is non-empty; and kb_ready turns  *)
(* true only by a successful index or by loading a draft that holds it     *)
(* true.                                                                   *)
(***************************************************************************)
C16_KbReadyFollowsIndex ==
    [](/\ \A ev \in BuildEvents :
             LET r == Run(ev) IN
             Succeeded(r, ev) => r.ss.last_index_result = ev.res.data /\ r.ss.kb_ready
       /\ \A ev \in StepEvents :
             rendered_kb_ok(StartRun(SS, files, saved), ev)
                 <=> (kb_ready \/ last_index_result # EmptyDict)
       /\ ~kb_ready =>
             EveryEvent(LAMBDA ev :
                 LET r == Run(ev) IN
                 r.ss.kb_ready =>
                     \/ ev.op = "build" /\ Succeeded(r, ev)
                     \/ /\ ev.op = "load"
                        /\ ev.arg \in DOMAIN files
                        /\ "kb_ready" \in DOMAIN files[ev.arg].v
                        /\ files[ev.arg].v.kb_ready = JBool(TRUE)))

\* an index has answered with an empty object and the knowledge base is ready
C16_Witness ==
    /\ step = steps[1]
    /\ notice = "success"
    /\ sources # <<>>
    /\ last_index_result = EmptyDict
    /\ kb_ready

(***************************************************************************)
(* C18.  Use these requirements rejects requirements that are not well     *)
(* formed (a statement missing or empty) and leaves product_pack as it     *)
(* was, so that the requirements applied always have a statement.          *)
(* The code applies whatever was fetched.                                  *)
(***************************************************************************)
WellFormed(reqs) ==
    \A i \in DOMAIN reqs :
        "statement" \in DOMAIN reqs[i] /\ reqs[i].statement \notin {None, ""}

C18_UseRejectsMalformed ==
    step = steps[2] =>
        \A ev \in UseRequirementsEvents :
            LET r == Run(ev) IN
            /\ ~WellFormed(fetched_requirements) =>
                  /\ r.notice # "success"
                  /\ r.ss.product_pack.requirements = product_pack.requirements
            /\ r.notice = "success" => WellFormed(r.ss.product_pack.requirements)

(***************************************************************************)
(* C19.  A fetch that the service answers with an empty list, or with      *)
(* something that is not a list, is reported as a warning and changes no   *)
(* field of the session state: the requirements fetched before and their   *)
(* time stamp stay.                                                        *)
(***************************************************************************)
C19_EmptyResultIsAWarning ==
    [](step = steps[2] =>
           \A ev \in FetchEvents :
               LET r == Run(ev) IN
               (Succeeded(r, ev) /\ (~ev.res.is_list \/ ev.res.data = <<>>)) =>
                   r.notice = "warning" /\ r.ss = SS)

\* a fetch found nothing and the requirements fetched before are still there
C19_Witness ==
    /\ step = steps[2]
    /\ notice = "warning"
    /\ fetched_requirements # <<>>

(***************************************************************************)
(* C20.  A successful generation of scenarios or of test cases leaves      *)
(* scenario_pack equal to the answer, with nothing of the tree held        *)
(* before, and the same click with the same answer once more leaves the    *)
(* state as it is.                                                         *)
(***************************************************************************)
C20_MergeIsReplacement ==
    [](/\ step = steps[4] =>
             \A ev \in CreateScenariosEvents :
                 LET r == Run(ev) IN
                 Succeeded(r, ev) =>
                     r.ss.scenario_pack = ev.res.data /\ RunFrom(r, ev).ss = r.ss
       /\ step = steps[5] =>
             \A ev \in CreateTestcasesEvents :
                 LET r == Run(ev) IN
                 Succeeded(r, ev) =>
                     r.ss.scenario_pack = ev.res.data /\ RunFrom(r, ev).ss = r.ss)

\* an answer of two scenarios has replaced a tree of three
C20_Witness ==
    /\ step = steps[5]
    /\ notice = "success"
    /\ scenario_pack = [scenarios |-> <<ScB, ScAEnriched>>]

\* the gate of a request, by its path, on the payload it carries
GateOfRequest(q) ==
    CASE q.path = "/v1/index" -> Len(q.payload.sources) > 0
      [] q.path = "/v1/testcases" -> Len(scenario_list(q.payload.scenario_pack)) > 0
      [] q.path = "/v1/jira/push" -> Len(scenario_list(q.payload.scenario_pack)) > 0
      [] q.path = "/v1/scenarios" ->
            \/ q.payload.jira_issue_key \notin {None, "", " "}
            \/ requirements_count(q.payload.product_pack) > 0
      [] OTHER -> TRUE

\* a run that made no request and left the session as it was
NothingDone(r) == r.requests = <<>> /\ r.ss = SS /\ r.files = files

(***************************************************************************)
(* C21.  No request leaves a state that violates its gate: an index        *)
(* request carries sources, a test-case or push request carries a tree     *)
(* with a scenario, a scenario request goes with a non-blank issue key or  *)
(* with applied requirements, and what the payload carries is what the     *)
(* session holds.  A click on an action whose gate is unmet sends nothing  *)
(* and changes nothing.                                                    *)
(***************************************************************************)
C21_RequestsRespectGates ==
    [](/\ EveryPipelineEvent(LAMBDA ev :
            LET r == Run(ev) IN
            \A i \in DOMAIN r.requests :
                /\ GateOfRequest(r.requests[i])
                /\ r.requests[i].path = "/v1/index" => sources # <<>>
                /\ r.requests[i].path \in {"/v1/testcases", "/v1/jira/push"}
                        => scenario_list(scenario_pack) # <<>>
                /\ r.requests[i].path = "/v1/scenarios"
                        => \/ strip(jira_issue_key) # ""
                           \/ requirements_count(product_pack) > 0)
       /\ (step = steps[1] /\ sources = <<>>)
            => \A ev \in BuildEvents : NothingDone(Run(ev))
       /\ (step = steps[4] /\ strip(jira_issue_key) = ""
                /\ requirements_count(product_pack) = 0)
            => \A ev \in CreateScenariosEvents : NothingDone(Run(ev))
       /\ (step = steps[5] /\ scenario_list(scenario_pack) = <<>>)
            => \A ev \in CreateTestcasesEvents : NothingDone(Run(ev))
       /\ (step = steps[6] /\ scenario_list(scenario_pack) = <<>>)
            => \A ev \in PushEvents : NothingDone(Run(ev)))

\* a push has been answered, from a session that holds scenarios
C21_Witness ==
    /\ step = steps[6]
    /\ notice = "success"
    /\ last_jira_result # EmptyDict
    /\ scenario_list(scenario_pack) # <<>>

(***************************************************************************)
(* C22.  Every request for scenarios or test cases carries                 *)
(* fetch_requirements_from_jira = true; its jira_issue_key is null exactly *)
(* when the key of the session is blank, and the trimmed key otherwise.    *)
(* The request for test cases carries the scenario_pack of the session as  *)
(* it is.                                                                  *)
(***************************************************************************)
C22_PayloadCarriesKeyAndTree ==
    LET KeyCarried(q) ==
            /\ q.payload.fetch_requirements_from_jira = TRUE
            /\ q.payload.jira_issue_key = None <=> jira_issue_key \in Blank
            /\ jira_issue_key \notin Blank
                    => q.payload.jira_issue_key = strip(jira_issue_key)
    IN  /\ \A ev \in CreateScenariosEvents :
                \A i \in DOMAIN Run(ev).requests : KeyCarried(Run(ev).requests[i])
        /\ \A ev \in CreateTestcasesEvents :
                \A i \in DOMAIN Run(ev).requests :
                    /\ KeyCarried(Run(ev).requests[i])
                    /\ Run(ev).requests[i].payload.scenario_pack = scenario_pack

\* test cases were generated in a session whose key was typed with blanks around
C22_Witness ==
    /\ step = steps[5]
    /\ notice = "success"
    /\ jira_issue_key = " RFID-9 "
    /\ tc_ok(SS)

\* the test case passes the two filters, as the claim words them
Passes(tc, tc_type, q) ==
    /\ tc_type = "All" \/ ("type" \in DOMAIN tc /\ tc.type = tc_type)
    /\ \/ q = ""
       \/ /\ "title" \in DOMAIN tc
          /\ tc.title # None
          /\ <<lower(q), lower(tc.title)>> \in Substrings

(***************************************************************************)
(* C23.  The test cases listed for the scenario picked are exactly those   *)
(* of its test cases that pass the type filter ("All", or the same type)   *)
(* and the keyword filter (no keyword, or the keyword in the title, case   *)
(* ignored), in their order; a test case without title or type is not an   *)
(* error, and browsing changes nothing of the session.                     *)
(***************************************************************************)
C23_FilteredAreThosePassing ==
    (step = steps[5] /\ total_testcases(scenario_pack) > 0) =>
        \A ev \in BrowseEvents :
            LET r == Run(ev)
                s == scenario_pack.scenarios[ev.arg.idx + 1]
                tcs == IF "test_cases" \in DOMAIN s /\ s.test_cases # NoneList
                       THEN s.test_cases ELSE <<>>
                kept == {i \in DOMAIN tcs : Passes(tcs[i], ev.arg.tc_type, ev.arg.q)}
            IN  /\ r.notice # "exception" /\ ~r.halted
                /\ r.ss = SS
                /\ r.view.tcs = tcs
                /\ Len(r.view.filtered) = Cardinality(kept)
                /\ \A i \in kept :
                        r.view.filtered[Cardinality({j \in kept : j <= i})] = tcs[i]

\* the type filter has kept the two Functional test cases, one without title,
\* of a scenario that also has one without type
C23_Witness ==
    /\ step = steps[5]
    /\ view.tcs = <<TC1, TC3, TC2, TC4>>
    /\ view.filtered = <<TC1, TC3>>

\* l is m with entries added at its end
Extends(l, m) == Len(l) >= Len(m) /\ SubSeq(l, 1, Len(m)) = m

(***************************************************************************)
(* C24.  Sources are immutable once added.  Whatever the operator does,    *)
(* the list of sources stays as it is, or gets entries at its end (Add     *)
(* source: one, Add sample sources: the two samples), or is emptied (Clear *)
(* sources, New), or becomes the list of the draft loaded (Load); index,   *)
(* generation and push leave it alone.                                     *)
(***************************************************************************)
C24_SourcesOnlyGrowOrReset ==
    [](EveryEvent(LAMBDA ev :
        LET new == Run(ev).ss.sources IN
        CASE ev.op = "add_source" ->
                new = sources \/ (Len(new) = Len(sources) + 1 /\ Extends(new, sources))
          [] ev.op = "sample_sources" ->
                new = sources \/ new = sources \o SampleSources
          [] ev.op = "clear_sources" -> new = sources \/ new = <<>>
          [] ev.op = "new" -> new = <<>>
          [] ev.op = "load" ->
                IF ev.arg \in DOMAIN files
                THEN new = Get(load_draft(files, ev.arg), "sources", <<>>)
                ELSE new = sources
          [] OTHER -> new = sources))

\* a source was added behind the one the session held
C24_Witness ==
    /\ step = steps[1]
    /\ notice = "success"
    /\ Len(sources) = 2
    /\ sources[1].url = "https://ex.com/a"
    /\ sources[2].url = "https://ex.com/a"

\* the fields of a line: its pieces between the commas
RECURSIVE FieldsOf(_)
FieldsOf(line) ==
    IF \A i \in DOMAIN line : line[i] # "," THEN <<line>>
    ELSE LET c == CHOOSE i \in DOMAIN line :
                    line[i] = "," /\ \A j \in 1..(i - 1) : line[j] # ","
         IN  <<SubSeq(line, 1, c - 1)>> \o FieldsOf(SubSeq(line, c + 1, Len(line)))

\* the value of a field of the tree, "" when missing or null, a blank in the
\* place of each comma
Cleaned(d, k) ==
    LET p == IF k \in DOMAIN d /\ d[k] # None THEN Pieces(d[k]) ELSE <<>>
    IN  [i \in DOMAIN p |-> IF p[i] = "," THEN " " ELSE p[i]]

(***************************************************************************)
(* C25.  Every line of the export after the header has exactly five commas *)
(* and so six fields; they are scenario_id, scenario_title, tc_id,         *)
(* tc_title, tc_type and priority of a test case and its scenario, in      *)
(* this order, with a blank for each comma of the value and nothing for a  *)
(* missing value.                                                          *)
(***************************************************************************)
C25_RowsHaveSixFields ==
    (step = steps[6] /\ scenario_list(scenario_pack) # <<>>) =>
        \A ev \in CsvEvents :
            LET lines == Run(ev).view.csv
                scs == scenario_pack.scenarios
            IN  \A n \in 2..Len(lines) :
                    /\ Cardinality({i \in DOMAIN lines[n] : lines[n][i] = ","}) = 5
                    /\ Len(FieldsOf(lines[n])) = 6
                    /\ \E i \in DOMAIN scs :
                         /\ "test_cases" \in DOMAIN scs[i]
                         /\ scs[i].test_cases # NoneList
                         /\ \E j \in DOMAIN scs[i].test_cases :
                              LET tc == scs[i].test_cases[j] IN
                              FieldsOf(lines[n]) =
                                  << Cleaned(scs[i], "scenario_id"), Cleaned(scs[i], "title"),
                                     Cleaned(tc, "tc_id"), Cleaned(tc, "title"),
                                     Cleaned(tc, "type"), Cleaned(tc, "priority") >>

\* the export of a scenario with commas in its title and of its four test
\* cases, one with a comma in the title, one without title and type
C25_Witness ==
    /\ step = steps[6]
    /\ scenario_pack = [scenarios |-> <<ScB, ScD>>]
    /\ Len(view.csv) = 5
    /\ view.csv[5] =
         <<"SC-5", ",", "Mixed", " ", " all shapes", " ", ",", "TC-4", ",", ",", ",",
           "Functional">>

(***************************************************************************)
(* C26.  The stages are not enforced.  The selected stage is always one of *)
(* the six; in every state each of the six can be selected and is then the *)
(* selected stage, whatever the checklist says; Save, Load and New work in *)
(* every stage and leave the selected stage as it is.                      *)
(***************************************************************************)
C26_AnyStageAnyTime ==
    [](/\ step \in Steps
       /\ Cardinality(Steps) = 6
       /\ \A ev \in StepEvents :
            /\ Run(ev).ss.step = ev.arg
            /\ ~Run(ev).halted
       /\ \A ev \in SaveEvents :
            /\ Run(ev).ss.step = step
            /\ DraftFile(ev.arg) \in DOMAIN Run(ev).files
            /\ Run(ev).files[DraftFile(ev.arg)] = json_dump(DraftState(SS))
       /\ \A ev \in NewEvents :
            /\ Run(ev).ss.step = step
            /\ Run(ev).ss.sources = <<>>
            /\ Run(ev).ss.kb_ready = FALSE
            /\ Run(ev).ss.scenario_pack = EmptyDict
       /\ \A ev \in LoadEvents :
            /\ Run(ev).ss.step = step
            /\ ev.arg \in DOMAIN files =>
                 /\ ~Run(ev).halted
                 /\ Run(ev).ss.sources = Get(load_draft(files, ev.arg), "sources", <<>>))

\* a draft was saved on the last stage by a session that has done nothing on
\* the stages before it
C26_Witness ==
    /\ step = steps[6]
    /\ notice = "success"
    /\ DraftFile("a") \in DOMAIN files
    /\ sources = <<>>
    /\ ~kb_ready
    /\ last_index_result = EmptyDict
    /\ scenario_pack = EmptyDict

(***************************************************************************)
(* C27.  Selecting a stage without editing any input is a pure view: the   *)
(* run changes no field of the session other than the selected stage.      *)
(* The code breaks it on the Project Settings stage, whose page writes     *)
(* every input back: product.version of the default settings is None and   *)
(* becomes "".                                                             *)
(***************************************************************************)
C27_SelectingAStageIsAView ==
    \A ev \in StepEvents : Run(ev).ss = [SS EXCEPT !.step = ev.arg]

(***************************************************************************)
(* C28.  Readiness of the knowledge base is sticky.  Once kb_ready is true *)
(* it stays true whatever the operator does, New and Load excepted; Clear  *)
(* sources, Add source and Add sample sources leave kb_ready and           *)
(* last_index_result as they are, so that the knowledge base can be ready  *)
(* while there is no source.                                               *)
(***************************************************************************)
C28_KbReadyIsSticky ==
    [](EveryEvent(LAMBDA ev :
        LET r == Run(ev) IN
        /\ (kb_ready /\ ev.op \notin {"new", "load"}) => r.ss.kb_ready
        /\ ev.op \in {"clear_sources", "add_source", "sample_sources"} =>
                /\ r.ss.kb_ready = kb_ready
                /\ r.ss.last_index_result = last_index_result
        /\ (ev.op = "clear_sources" /\ step = steps[1] /\ kb_ok(SS) /\ sources_ok(SS)) =>
                kb_ok(r.ss) /\ ~sources_ok(r.ss)))

\* the sources were cleared after an index: the knowledge base is ready and
\* there is no source
C28_Witness ==
    /\ step = steps[1]
    /\ notice = "success"
    /\ sources = <<>>
    /\ kb_ready
    /\ last_index_result # EmptyDict
    /\ kb_ok(SS) /\ ~sources_ok(SS)

====
